---- MODULE Spec2Model ----
(***************************************************************************)
(* State-machine model of the block puzzle component                       *)
(* (src/block_puzzle_game.jsx): the 8x8 grid, the queue of three blocks,   *)
(* the selection, the score, the explosion list with its reset timers, and *)
(* the handlers that change them (queue click, grid-cell click, timer).    *)
(* Indices are 0-based as in the source.                                   *)
(***************************************************************************)
EXTENDS Integers, Sequences, FiniteSets, TLC

VARIABLES grid, queue, selected, score, explosions, timers, now, cleared, placed, last,
          anchor

vars ==
  <<grid, queue, selected, score, explosions, timers, now, cleared, placed, last, anchor>>

(***************************************************************************)
(* Program constants                                                       *)
(***************************************************************************)
GRID_SIZE == 8

\* a cell holding null
Null == "null"

\* selected === null
NoBlock == 0

SHAPES ==
  << [color |-> "#ff6b6b", shape |-> << <<1, 1>>, <<1, 1>> >>],
     [color |-> "#4dabf7", shape |-> << <<1, 1, 1>> >>],
     [color |-> "#51cf66", shape |-> << <<1, 0>>, <<1, 1>> >>],
     [color |-> "#ffa94d", shape |-> << <<1, 1, 1, 1>> >>],
     [color |-> "#845ef7", shape |-> << <<1, 1, 0>>, <<0, 1, 1>> >>],
     [color |-> "#f06595", shape |-> << <<1, 1, 1>>, <<0, 1, 0>> >>],
     [color |-> "#20c997", shape |-> << <<1>>, <<1>>, <<1>> >>],
     [color |-> "#ffd43b", shape |-> << <<1, 1, 1>>, <<1, 0, 0>> >>] >>

\* Blocks are shared catalog objects: a block is identified by its catalog
\* position (1..8), which is what the comparison selected === b decides.
Catalog == 1..Len(SHAPES)

Square   == 1
Line3    == 2
LBlock   == 3
Line4    == 4
ZBlock   == 5
TBlock   == 6
Vertical == 7
L2Block  == 8

Colors == {SHAPES[b].color : b \in Catalog}

Idx == 0..(GRID_SIZE - 1)

(***************************************************************************)
(* Bounds of the model                                                     *)
(***************************************************************************)
\* clicks are explored until this many placements have been accepted after
\* the initial state
MaxPlacements == 1

\* how far outside the board (on each side) a direct placeBlock call's anchor
\* may lie
AnchorSlack == 1

(***************************************************************************)
(* Pure functions of the source                                            *)
(***************************************************************************)
emptyGrid == [r \in Idx |-> [c \in Idx |-> Null]]

\* The occupied offsets (shape[i][j] === 1) of a shape, 0-based, in the order
\* the nested loops visit them (row-major)
RECURSIVE RowOffsets(_, _, _)
RowOffsets(row, i, j) ==
  IF j > Len(row) THEN <<>>
  ELSE (IF row[j] = 1 THEN << <<i - 1, j - 1>> >> ELSE <<>>)
       \o RowOffsets(row, i, j + 1)

RECURSIVE ShapeOffsets(_, _)
ShapeOffsets(shape, i) ==
  IF i > Len(shape) THEN <<>>
  ELSE RowOffsets(shape[i], i, 1) \o ShapeOffsets(shape, i + 1)

\* computed once per catalog block
OffsetsOf == [b \in Catalog |-> ShapeOffsets(SHAPES[b].shape, 1)]

Offsets(b) == OffsetsOf[b]

OffsetSetOf == [b \in Catalog |-> {OffsetsOf[b][k] : k \in 1..Len(OffsetsOf[b])}]

OffsetSet(b) == OffsetSetOf[b]

\* The condition of line 47 at one occupied offset, with JavaScript's
\* evaluation order: the two upper-bound tests short-circuit; otherwise
\* newGrid[r + i] is read, which is undefined for a negative row, and
\* indexing undefined throws a TypeError; a negative column reads undefined
\* from a row array, and undefined !== null is true.
CellCheck(g, r, c, o) ==
  LET rr == r + o[1]
      cc == c + o[2]
  IN  IF rr >= GRID_SIZE THEN "reject"
      ELSE IF cc >= GRID_SIZE THEN "reject"
      ELSE IF rr < 0 THEN "throw"
      ELSE IF cc < 0 THEN "reject"
      ELSE IF g[rr][cc] # Null THEN "reject"
      ELSE "pass"

\* The validation loops of placeBlock (lines 44-52): the first occupied offset
\* whose check does not pass decides; "ok" when every offset passes.
RECURSIVE ValidateFrom(_, _, _, _, _)
ValidateFrom(g, r, c, offs, k) ==
  IF k > Len(offs) THEN "ok"
  ELSE LET v == CellCheck(g, r, c, offs[k])
       IN  IF v = "pass" THEN ValidateFrom(g, r, c, offs, k + 1) ELSE v

\* Mutant of Validate: only the first occupied offset is checked
ValidateAnchorOnly(g, r, c, b) ==
  LET v == CellCheck(g, r, c, Offsets(b)[1])
  IN  IF v = "pass" THEN "ok" ELSE v

Validate(g, r, c, b) == ValidateFrom(g, r, c, Offsets(b), 1)

\* newGrid[rr][cc] = color on a JavaScript array of row arrays: an index
\* beyond the end of the row lengthens the row
WriteCell(g, rr, cc, color) ==
  [g EXCEPT ![rr] = [x \in (DOMAIN g[rr]) \cup {cc} |-> IF x = cc THEN color ELSE g[rr][x]]]

RECURSIVE WriteFrom(_, _, _, _, _, _)
WriteFrom(g, r, c, offs, color, k) ==
  IF k > Len(offs) THEN g
  ELSE WriteFrom(WriteCell(g, r + offs[k][1], c + offs[k][2], color), r, c, offs, color, k + 1)

\* The write loops of placeBlock (lines 54-58) on the cloned grid
WriteBlock(g, r, c, b) == WriteFrom(g, r, c, Offsets(b), SHAPES[b].color, 1)

\* newGrid[r + i] is undefined for a row outside the grid, and assigning to an
\* element of undefined throws a TypeError (the validation loops exclude it)
WriteThrows(g, r, b) == \E o \in OffsetSet(b) : r + o[1] \notin DOMAIN g

\* grid[r].every((cell) => cell !== null) and grid.every((row) => row[c] !== null)
\* for r, c < GRID_SIZE (lines 75-76)
RowsToClear(g) == {r \in Idx : \A c \in DOMAIN g[r] : g[r][c] # Null}

ColsToClear(g) == {c \in Idx : \A r \in DOMAIN g : g[r][c] # Null}

\* Mutant of ClearLines: only the full columns are emptied
ClearLinesColsOnly(g, rows, cols) ==
  [r \in DOMAIN g |-> [c \in DOMAIN g[r] |-> IF c \in cols THEN Null ELSE g[r][c]]]

\* newGrid[r].fill(null) for the full rows, row[c] = null for the full columns
\* (lines 85-87)
ClearLines(g, rows, cols) ==
  [r \in DOMAIN g |-> [c \in DOMAIN g[r] |->
     IF r \in rows \/ c \in cols THEN Null ELSE g[r][c]]]

\* The grid committed by an accepted placement: setGrid(newGrid) of placeBlock,
\* overridden by handleClears' setGrid when a line is full (lines 60-61, 78, 89)
GridAfterPlace(g, r, c, b) ==
  LET ng == WriteBlock(g, r, c, b)
  IN  ClearLines(ng, RowsToClear(ng), ColsToClear(ng))

\* Mutant of ScoreGain: the full columns are not counted
ScoreGainRowsOnly(g) == Cardinality(RowsToClear(g)) * 200

\* Mutant of ScoreGain: the column count is subtracted
ScoreGainDifference(g) == (Cardinality(RowsToClear(g)) - Cardinality(ColsToClear(g))) * 200

\* Mutant of ScoreGain: 200 for a call that empties lines, however many
ScoreGainFlat(g) == IF RowsToClear(g) = {} /\ ColsToClear(g) = {} THEN 0 ELSE 200

\* setScore((s) => s + (rowsToClear.length + colsToClear.length) * 200)
ScoreGain(g) == (Cardinality(RowsToClear(g)) + Cardinality(ColsToClear(g))) * 200

\* The members of a set of indices in ascending order (the order in which
\* the loops of lines 75-76 push them)
RECURSIVE Ascending(_)
Ascending(S) ==
  IF S = {} THEN <<>>
  ELSE LET m == CHOOSE x \in S : \A y \in S : x <= y
       IN  <<m>> \o Ascending(S \ {m})

RECURSIVE RowCells(_, _)
RowCells(rows, t) ==
  IF rows = <<>> THEN <<>>
  ELSE [c \in 1..GRID_SIZE |-> [r |-> rows[1], c |-> c - 1, t |-> t]]
       \o RowCells(Tail(rows), t)

RECURSIVE ColCells(_, _)
ColCells(cols, t) ==
  IF cols = <<>> THEN <<>>
  ELSE [r \in 1..GRID_SIZE |-> [r |-> r - 1, c |-> cols[1], t |-> t]]
       \o ColCells(Tail(cols), t)

\* Mutant of ExplosionCells: the cells of the full columns are left out
ExplosionCellsRowsOnly(g, t) == RowCells(Ascending(RowsToClear(g)), t)

\* explosionCells of handleClears (lines 80-82) as the entries triggerExplosion
\* appends (line 33): the cells of every full row, then of every full column,
\* each stamped with the time t of the call (Date.now() in the id)
ExplosionCells(g, t) ==
  RowCells(Ascending(RowsToClear(g)), t) \o ColCells(Ascending(ColsToClear(g)), t)

HasFullLine(g) == RowsToClear(g) # {} \/ ColsToClear(g) # {}

\* rowsToClear.length + colsToClear.length (line 90): the lines one call of
\* handleClears empties
LinesCleared(g) == Cardinality(RowsToClear(g)) + Cardinality(ColsToClear(g))

(***************************************************************************)
(* Handlers                                                                *)
(***************************************************************************)
\* History: cleared counts the rows and columns emptied so far (a row and a
\* column emptied by one call count as two), and last is the last handler
\* run: op is "init", "select", "noop" (a cell click with nothing selected),
\* "place" (a placeBlock call, with its block and ret: "true", "false" or
\* "threw") or "timer".  The variable anchor is history too: the (r, c) of a
\* direct placeBlock call.
Last(op, b, ret) == [op |-> op, block |-> b, ret |-> ret]

NoAnchor == <<0, 0>>

\* Mutant of Select: a block is selected only while nothing is selected
SelectWhenNone(i) ==
  /\ placed < MaxPlacements
  /\ selected' = IF selected = NoBlock THEN queue[i] ELSE selected
  /\ last' = Last("select", queue[i], "none")
  /\ UNCHANGED <<grid, queue, score, explosions, timers, now, cleared, placed, anchor>>

\* queue onClick (line 164): setSelected(b) with b = queue[i]
Select(i) ==
  /\ placed < MaxPlacements
  /\ selected' = queue[i]
  /\ last' = Last("select", queue[i], "none")
  /\ UNCHANGED <<grid, queue, score, explosions, timers, now, cleared, placed, anchor>>

\* getRandomBlock (line 20): any catalog block
RandomBlocks == Catalog

\* Mutant of UpdateQueue: no new block is appended
UpdateQueueNoDraw ==
  /\ queue' = Tail(queue)
  /\ selected' = NoBlock

\* Mutant of UpdateQueue: the block that was placed is dropped, not the front
UpdateQueueDropPlaced ==
  /\ \E nb \in RandomBlocks :
       LET i == CHOOSE k \in 1..Len(queue) :
                  queue[k] = selected /\ \A j \in 1..(k - 1) : queue[j] # selected
       IN  queue' = SubSeq(queue, 1, i - 1) \o SubSeq(queue, i + 1, Len(queue)) \o <<nb>>
  /\ selected' = NoBlock

\* Mutant of UpdateQueue: the selection is kept
UpdateQueueKeepSelection ==
  /\ \E nb \in RandomBlocks : queue' = Tail(queue) \o <<nb>>
  /\ selected' = selected

\* updateQueue (lines 66-69)
UpdateQueue ==
  /\ \E nb \in RandomBlocks : queue' = Tail(queue) \o <<nb>>
  /\ selected' = NoBlock

\* Mutant of HandleClears: the full columns are looked for after the full rows
\* have been emptied
HandleClearsInTurn(ng) ==
  IF ~HasFullLine(ng)
  THEN /\ grid' = ng
       /\ UNCHANGED <<score, explosions, timers, now, cleared>>
  ELSE LET rows == RowsToClear(ng)
           cols == ColsToClear(ClearLines(ng, rows, {}))
       IN  /\ explosions' = explosions \o ExplosionCells(ng, now)
           /\ timers' = Append(timers, now)
           /\ now' = now + 1
           /\ grid' = ClearLines(ng, rows, cols)
           /\ score' = score + (Cardinality(rows) + Cardinality(cols)) * 200
           /\ cleared' = cleared + Cardinality(rows) + Cardinality(cols)

\* Mutant of HandleClears: the full lines are looked for in the grid of the
\* current render, which does not hold the block yet
HandleClearsBeforeWrite(ng) ==
  IF ~HasFullLine(grid)
  THEN /\ grid' = ng
       /\ UNCHANGED <<score, explosions, timers, now, cleared>>
  ELSE /\ explosions' = explosions \o ExplosionCells(grid, now)
       /\ timers' = Append(timers, now)
       /\ now' = now + 1
       /\ grid' = ClearLines(ng, RowsToClear(grid), ColsToClear(grid))
       /\ score' = score + ScoreGain(grid)
       /\ cleared' = cleared + LinesCleared(grid)

\* handleClears (lines 71-91) on the grid placeBlock has written, ng
HandleClears(ng) ==
  IF ~HasFullLine(ng)
  THEN /\ grid' = ng
       /\ UNCHANGED <<score, explosions, timers, now, cleared>>
  ELSE /\ explosions' = explosions \o ExplosionCells(ng, now)
       /\ timers' = Append(timers, now)
       /\ now' = now + 1
       /\ grid' = ClearLines(ng, RowsToClear(ng), ColsToClear(ng))
       /\ score' = score + ScoreGain(ng)
       /\ cleared' = cleared + LinesCleared(ng)

\* the outcome of the loops of placeBlock before any state is set
Outcome(g, r, c, b) ==
  LET v == Validate(g, r, c, b)
  IN  IF v = "ok" /\ WriteThrows(g, r, b) THEN "throw" ELSE v

\* placeBlock past its validation (lines 54-63): the writes, setGrid,
\* handleClears, updateQueue, return true
Commit(r, c, b) ==
  /\ HandleClears(WriteBlock(grid, r, c, b))
  /\ UpdateQueue
  /\ placed' = placed + 1
  /\ last' = Last("place", b, "true")

\* the grid when the checked offsets are written as they pass, up to the first
\* that does not
RECURSIVE WrittenUntilRefused(_, _, _, _, _, _)
WrittenUntilRefused(g, r, c, offs, color, k) ==
  IF k > Len(offs) \/ CellCheck(g, r, c, offs[k]) # "pass" THEN g
  ELSE WrittenUntilRefused(WriteCell(g, r + offs[k][1], c + offs[k][2], color),
                           r, c, offs, color, k + 1)

\* Mutant of PlaceBlock: one loop checks and writes each cell of the grid in
\* turn, so a refused call keeps the cells written before the refusal
PlaceBlockCheckAndWrite(r, c, b) ==
  LET v == Outcome(grid, r, c, b)
  IN  IF v = "ok"
      THEN Commit(r, c, b)
      ELSE /\ last' = Last("place", b, IF v = "throw" THEN "threw" ELSE "false")
           /\ grid' = WrittenUntilRefused(grid, r, c, Offsets(b), SHAPES[b].color, 1)
           /\ UNCHANGED <<queue, selected, score, explosions, timers, now, cleared, placed>>

\* Mutant of PlaceBlock: a refused call replenishes the queue
PlaceBlockRedrawOnRefusal(r, c, b) ==
  LET v == Outcome(grid, r, c, b)
  IN  IF v = "ok"
      THEN Commit(r, c, b)
      ELSE /\ last' = Last("place", b, IF v = "throw" THEN "threw" ELSE "false")
           /\ UpdateQueue
           /\ UNCHANGED <<grid, score, explosions, timers, now, cleared, placed>>

\* placeBlock(r, c, block) (lines 40-64): return false (line 48) or a
\* TypeError leaves every state as it was
PlaceBlock(r, c, b) ==
  LET v == Outcome(grid, r, c, b)
  IN  IF v = "ok"
      THEN Commit(r, c, b)
      ELSE /\ last' = Last("place", b, IF v = "throw" THEN "threw" ELSE "false")
           /\ UNCHANGED <<grid, queue, selected, score, explosions, timers, now, cleared,
                          placed>>

\* Mutant of ClickCell: with nothing selected the front block of the queue is
\* placed
ClickCellFrontBlock(r, c) ==
  /\ placed < MaxPlacements
  /\ anchor' = anchor
  /\ PlaceBlock(r, c, IF selected = NoBlock THEN queue[1] ELSE selected)

\* grid cell onClick (line 111): selected && placeBlock(r, c, selected)
ClickCell(r, c) ==
  /\ placed < MaxPlacements
  /\ anchor' = anchor
  /\ IF selected = NoBlock
     THEN /\ last' = Last("noop", NoBlock, "none")
          /\ UNCHANGED <<grid, queue, selected, score, explosions, timers, now, cleared,
                         placed>>
     ELSE PlaceBlock(r, c, selected)

\* Mutant of TimerFires: the callback removes the oldest entry only
TimerFiresDropsOne ==
  /\ timers # <<>>
  /\ timers' = Tail(timers)
  /\ explosions' = IF explosions = <<>> THEN <<>> ELSE Tail(explosions)
  /\ last' = Last("timer", NoBlock, "none")
  /\ UNCHANGED <<grid, queue, selected, score, now, cleared, placed, anchor>>

\* the callback of setTimeout (line 37): setExplosions([]).  Timers of equal
\* delay fire in the order they were set.
TimerFires ==
  /\ timers # <<>>
  /\ timers' = Tail(timers)
  /\ explosions' = <<>>
  /\ last' = Last("timer", NoBlock, "none")
  /\ UNCHANGED <<grid, queue, selected, score, now, cleared, placed, anchor>>

(***************************************************************************)
(* Start states                                                            *)
(*                                                                         *)
(* The component is constructed with an empty grid, three random blocks,   *)
(* no selection, score 0 and no explosions (lines 23-27).  Besides that    *)
(* state the model starts from mid-game states, each the result of playing *)
(* a fixed sequence of accepted placements from the empty grid with the    *)
(* operators above, every timer having fired before the last placement: a  *)
(* start state whose last placement emptied a line has that placement's    *)
(* explosions and its timer pending.  Any queue can accompany such a grid: *)
(* the blocks placed were drawn earlier, and the three blocks now queued   *)
(* are later, independent draws.                                           *)
(***************************************************************************)
\* one accepted placement <<block, r, c>> applied to the state s, the timers
\* of earlier placements having fired
PlayMove(s, m) ==
  IF Outcome(s.grid, m[2], m[3], m[1]) = "ok"
  THEN LET ng == WriteBlock(s.grid, m[2], m[3], m[1])
       IN  [grid       |-> GridAfterPlace(s.grid, m[2], m[3], m[1]),
            score      |-> s.score + ScoreGain(ng),
            now        |-> IF HasFullLine(ng) THEN s.now + 1 ELSE s.now,
            cleared    |-> s.cleared + LinesCleared(ng),
            explosions |-> IF HasFullLine(ng) THEN ExplosionCells(ng, s.now) ELSE <<>>,
            timers     |-> IF HasFullLine(ng) THEN <<s.now>> ELSE <<>>]
  ELSE s

\* the moves from the k-th on, one after the other
RECURSIVE PlayFrom(_, _, _)
PlayFrom(s, moves, k) ==
  IF k > Len(moves) THEN s
  ELSE LET t == PlayMove(s, moves[k])
       IN  IF t.score >= s.score THEN PlayFrom(t, moves, k + 1) ELSE t

Play(s, moves) == PlayFrom(s, moves, 1)

\* the state after construction
Fresh ==
  [grid |-> emptyGrid, score |-> 0, now |-> 0, cleared |-> 0, explosions |-> <<>>,
   timers |-> <<>>]

\* row 0 holds a 1x4 line in columns 0..3
SeedRow == Play(Fresh, << <<Line4, 0, 0>> >>)

\* column 3 is occupied in rows 0..4
SeedCol == Play(Fresh, << <<Vertical, 0, 3>>, <<LBlock, 3, 3>> >>)

\* row 0 is occupied in columns 0..6 and column 7 in rows 3..7
SeedCross ==
  Play(Fresh, << <<Line4, 0, 0>>, <<Line3, 0, 4>>, <<Vertical, 3, 7>>, <<Square, 6, 6>> >>)

\* row 7 has been completed and cleared once (score 200); rows 0 and 1 are
\* occupied in columns 0..5
SeedTwoRows ==
  Play(Fresh, << <<Line4, 7, 0>>, <<Line4, 7, 4>>,
                 <<Line3, 0, 0>>, <<Line3, 0, 3>>, <<Line3, 1, 0>>, <<Line3, 1, 3>> >>)

\* rows 1..7 are occupied in columns 0..6 (a 1x4 line and a 1x3 line in each);
\* row 0 and column 7 are empty
Crowded ==
  Play(Fresh, [k \in 1..(2 * (GRID_SIZE - 1)) |->
                 IF k % 2 = 1 THEN <<Line4, (k + 1) \div 2, 0>>
                              ELSE <<Line3, k \div 2, 4>>])

\* rows 3..7 are occupied in columns 0..6 and rows 1..2 in columns 0..3; row 0,
\* column 7 and the cells of rows 1..2 in columns 4..7 are empty
Pocket ==
  Play(Fresh, [k \in 1..10 |->
                 IF k % 2 = 1 THEN <<Line4, 3 + (k \div 2), 0>>
                              ELSE <<Line3, 2 + (k \div 2), 4>>]
              \o << <<Line4, 1, 0>>, <<Line4, 2, 0>> >>)

\* rows 1..6 are occupied in columns 0..6; row 7 has just been completed by
\* two 1x4 lines and emptied (score 200), its explosions and their timer are
\* pending; rows 0 and 7 and column 7 are empty
Aftermath ==
  Play(Fresh, [k \in 1..(2 * (GRID_SIZE - 2)) |->
                 IF k % 2 = 1 THEN <<Line4, (k + 1) \div 2, 0>>
                              ELSE <<Line3, k \div 2, 4>>]
              \o << <<Line4, GRID_SIZE - 1, 0>>, <<Line4, GRID_SIZE - 1, 4>> >>)

At(s, q) ==
  [grid |-> s.grid, score |-> s.score, now |-> s.now, cleared |-> s.cleared,
   explosions |-> s.explosions, timers |-> s.timers, queue |-> q]

\* the start states of the game
StartStates ==
  { At(Fresh, <<Line4, Line4, Line4>>),
    At(Crowded, <<Line4, Line3, Vertical>>),
    At(Crowded, <<Vertical, TBlock, Line3>>),
    At(Crowded, <<Square, LBlock, ZBlock>>),
    At(Pocket, <<Square, ZBlock, L2Block>>),
    At(Pocket, <<LBlock, TBlock, Vertical>>),
    At(Aftermath, <<Vertical, Square, LBlock>>) }

Init ==
  /\ \E s \in StartStates :
       /\ grid = s.grid
       /\ score = s.score
       /\ now = s.now
       /\ cleared = s.cleared
       /\ explosions = s.explosions
       /\ timers = s.timers
       /\ queue = s.queue
  /\ selected = NoBlock
  /\ placed = 0
  /\ last = Last("init", NoBlock, "none")
  /\ anchor = NoAnchor

Next ==
  \/ \E i \in 1..3 : Select(i)
  \/ \E r \in Idx, c \in Idx : ClickCell(r, c)
  \/ TimerFires

Spec == Init /\ [][Next]_vars

\* the start states of the game with the timers running: one with the
\* explosions of a clear and their timer pending, one with none
FairStates ==
  { At(Aftermath, <<Vertical, Square, LBlock>>),
    At(Crowded, <<Vertical, TBlock, Line3>>) }

InitFair ==
  /\ \E s \in FairStates :
       /\ grid = s.grid
       /\ score = s.score
       /\ now = s.now
       /\ cleared = s.cleared
       /\ explosions = s.explosions
       /\ timers = s.timers
       /\ queue = s.queue
  /\ selected = NoBlock
  /\ placed = 0
  /\ last = Last("init", NoBlock, "none")
  /\ anchor = NoAnchor

\* the game with the timers running: a callback set by setTimeout (line 37)
\* is run by the event loop once its delay has passed
SpecFair == InitFair /\ [][Next]_vars /\ WF_vars(TimerFires)

(***************************************************************************)
(* placeBlock called directly: one call placeBlock(r, c, selected) on each *)
(* of a set of boards, with each block of the queue selected, at every     *)
(* anchor of the board and up to AnchorSlack cells outside it.             *)
(***************************************************************************)
PlaceGrids == {Fresh, SeedRow, SeedCol, SeedCross, SeedTwoRows, Crowded, Pocket}

\* three consecutive catalog blocks
InitQueues == { <<b, (b % Len(SHAPES)) + 1, ((b + 1) % Len(SHAPES)) + 1>> : b \in Catalog }

Anchors == (0 - AnchorSlack)..(GRID_SIZE - 1 + AnchorSlack)

InitPlace ==
  /\ \E s \in PlaceGrids :
       /\ grid = s.grid
       /\ score = s.score
       /\ now = s.now
       /\ cleared = s.cleared
       /\ explosions = s.explosions
       /\ timers = s.timers
  /\ queue \in InitQueues
  /\ \E i \in 1..3 : selected = queue[i]
  /\ placed = 0
  /\ last = Last("init", NoBlock, "none")
  /\ anchor = NoAnchor

DirectCall(r, c) ==
  /\ last.op = "init"
  /\ anchor' = <<r, c>>
  /\ PlaceBlock(r, c, selected)

NextPlace == \E r \in Anchors, c \in Anchors : DirectCall(r, c)

SpecPlace == InitPlace /\ [][NextPlace]_vars

(***************************************************************************)
(* Claims                                                                  *)
(***************************************************************************)
Accepted == last.op = "place" /\ last.ret = "true"

Rejected == last.op = "place" /\ last.ret = "false"

\* the board cells the occupied offsets of block b map to at anchor (r, c)
Targets(r, c, b) == {<<r + o[1], c + o[2]>> : o \in OffsetSet(b)}

OnBoard(t) == t[1] \in Idx /\ t[2] \in Idx

RowFull(g, r) == \A c \in Idx : g[r][c] # Null

ColFull(g, c) == \A r \in Idx : g[r][c] # Null

RowEmpty(g, r) == \A c \in Idx : g[r][c] = Null

ColEmpty(g, c) == \A r \in Idx : g[r][c] = Null

FullRows(g) == {r \in Idx : RowFull(g, r)}

FullCols(g) == {c \in Idx : ColFull(g, c)}

\* the board with the color of block b in the targets of anchor (r, c)
Stamped(g, r, c, b) ==
  [rr \in Idx |-> [cc \in Idx |->
     IF <<rr, cc>> \in Targets(r, c, b) THEN SHAPES[b].color ELSE g[rr][cc]]]

\* C1: a placeBlock call that returns false leaves the board, the score and
\* the queue as they were, and the selection is still the block it was
\* called with.
C1_RejectedIsAtomic ==
  [][ Rejected' =>
        /\ grid' = grid
        /\ score' = score
        /\ queue' = queue
        /\ selected' = selected
        /\ selected' # NoBlock ]_vars

\* a call was rejected although some of its targets were free cells of the
\* board and others were occupied
C1_Witness ==
  /\ Rejected
  /\ \E t \in Targets(anchor[1], anchor[2], last.block) : OnBoard(t) /\ grid[t[1]][t[2]] = Null
  /\ \E t \in Targets(anchor[1], anchor[2], last.block) : OnBoard(t) /\ grid[t[1]][t[2]] # Null

\* C2: a placeBlock call at any anchor, negative rows and columns included,
\* with a target outside the board returns false (it does not throw) and
\* leaves the board unchanged.
C2_OutsideIsRejected ==
  [][ (last'.op = "place" /\ \E t \in Targets(anchor'[1], anchor'[2], last'.block) : ~OnBoard(t))
        => (last'.ret = "false" /\ grid' = grid) ]_vars

\* C3: a placeBlock call with a target on an occupied cell of the board
\* returns false, and a call is accepted only when every target is a cell of
\* the board that was empty before the call.
C3_OverlapIsRejected ==
  [][ /\ (last'.op = "place"
            /\ \E t \in Targets(anchor'[1], anchor'[2], last'.block) :
                 OnBoard(t) /\ grid[t[1]][t[2]] # Null)
         => last'.ret = "false"
      /\ Accepted'
         => \A t \in Targets(anchor'[1], anchor'[2], last'.block) :
              OnBoard(t) /\ grid[t[1]][t[2]] = Null ]_vars

\* C4: an accepted placement adds to the score exactly 200 times the number
\* of rows plus the number of columns that are full in the board with the
\* block written into it (nothing when none is full), and every row that was
\* full there ends empty.
C4_ScorePerFullLine ==
  [][ Accepted' =>
        LET ng == Stamped(grid, anchor'[1], anchor'[2], last'.block)
        IN  /\ score' = score + 200 * (Cardinality(FullRows(ng)) + Cardinality(FullCols(ng)))
            /\ \A r \in FullRows(ng) : RowEmpty(grid', r) ]_vars

\* on a board holding a 1x4 line at (0, 0), a 1x4 line was placed at (0, 4):
\* row 0 was cleared and the score is 200
C4_Witness ==
  /\ Accepted
  /\ last.block = Line4
  /\ anchor = <<0, 4>>
  /\ grid = emptyGrid
  /\ score = 200

\* C5: an accepted placement that fills a row and a column at once clears
\* both: every row and every column full in the board with the block written
\* into it ends empty, their intersections included, and each counts 200
\* (400 for one row and one column).
C5_RowAndColumnTogether ==
  [][ Accepted' =>
        LET ng == Stamped(grid, anchor'[1], anchor'[2], last'.block)
        IN  (FullRows(ng) # {} /\ FullCols(ng) # {}) =>
              /\ \A r \in FullRows(ng) : RowEmpty(grid', r)
              /\ \A c \in FullCols(ng) : ColEmpty(grid', c)
              /\ \A r \in FullRows(ng), c \in FullCols(ng) : grid'[r][c] = Null
              /\ score' = score + 200 * (Cardinality(FullRows(ng)) + Cardinality(FullCols(ng)))
              /\ (Cardinality(FullRows(ng)) = 1 /\ Cardinality(FullCols(ng)) = 1)
                   => score' = score + 400 ]_vars

\* the vertical line placed at (0, 7) filled row 0 and column 7 together: both
\* are empty and the score went from 0 to 400
C5_Witness ==
  /\ Accepted
  /\ last.block = Vertical
  /\ anchor = <<0, 7>>
  /\ RowEmpty(grid, 0)
  /\ ColEmpty(grid, 7)
  /\ grid[7][6] # Null
  /\ score = 400

\* C6: the queue always holds exactly 3 blocks of the catalog, and right
\* after an accepted placement nothing is selected.
C6_QueueOfThree ==
  /\ DOMAIN queue = 1..3
  /\ \A i \in DOMAIN queue : queue[i] \in Catalog
  /\ Accepted => selected = NoBlock

\* a placement was accepted and the queue was refilled with a block that
\* differs from the two it kept
C6_Witness ==
  /\ Accepted
  /\ selected = NoBlock
  /\ Len(queue) = 3
  /\ queue[3] \notin {queue[1], queue[2]}

\* C7: after an accepted placement the queue is the old second block, the old
\* third block and one catalog block, whichever queue block was placed.
C7_QueueShifts ==
  [][ Accepted' =>
        /\ Len(queue') = 3
        /\ queue'[1] = queue[2]
        /\ queue'[2] = queue[3]
        /\ queue'[3] \in Catalog ]_vars

\* the block placed is now second in the queue and not first: it was selected
\* from the back of the queue, and the front block was dropped instead
C7_Witness ==
  /\ Accepted
  /\ queue[2] = last.block
  /\ queue[1] # last.block
  /\ queue[3] # last.block

\* C8: a click on any cell of the grid while nothing is selected changes
\* neither the board, the score, the queue nor the selection, and starts no
\* explosion.
C8_ClickWithoutSelection ==
  [][ \A r \in Idx, c \in Idx :
        (selected = NoBlock /\ ClickCell(r, c)) =>
          /\ grid' = grid
          /\ score' = score
          /\ queue' = queue
          /\ selected' = NoBlock
          /\ explosions' = explosions
          /\ timers' = timers ]_vars

\* a cell of a board that holds blocks was clicked with nothing selected
C8_Witness ==
  /\ last.op = "noop"
  /\ selected = NoBlock
  /\ grid # emptyGrid

\* C9: the score is 0 until a line has been cleared, is never negative and
\* never decreases.
C9_ScoreNeverDecreases ==
  /\ [](score \in Nat)
  /\ [](now = 0 => score = 0)
  /\ [][score' >= score]_vars

\* a placement cleared lines and raised the score
C9_Witness ==
  /\ Accepted
  /\ now > 0
  /\ score > 0

\* C10: the grid always has rows 0..7, each with columns 0..7, and every cell
\* is null or the color of a catalog block.
C10_GridShape ==
  /\ DOMAIN grid = Idx
  /\ \A r \in DOMAIN grid :
       /\ DOMAIN grid[r] = Idx
       /\ \A c \in DOMAIN grid[r] : grid[r][c] \in Colors \cup {Null}

\* the block just placed reaches the last column of the grid
C10_Witness ==
  /\ Accepted
  /\ \E r \in Idx : grid[r][GRID_SIZE - 1] = SHAPES[last.block].color

\* the cells of the rows and of the columns of the two sets
LineCells(rows, cols) == {t \in Idx \X Idx : t[1] \in rows \/ t[2] \in cols}

\* the entries the step has appended to explosions
Emitted == SubSeq(explosions', Len(explosions) + 1, Len(explosions'))

InQueue(b, q) == \E i \in DOMAIN q : q[i] = b

\* the board g2 is the board g with color in the cells of foot, and then the
\* rows and the columns of the two sets emptied
IsEffect(g2, g, foot, color, rows, cols) ==
  \A t \in Idx \X Idx :
    g2[t[1]][t[2]] = IF t[1] \in rows \/ t[2] \in cols THEN Null
                     ELSE IF t \in foot THEN color
                     ELSE g[t[1]][t[2]]

\* the entries new report exactly the cells of the rows and of the columns of
\* the two sets, 8 entries for each line
Reports(new, rows, cols) ==
  /\ {<<new[k].r, new[k].c>> : k \in DOMAIN new} = LineCells(rows, cols)
  /\ Len(new) = GRID_SIZE * (Cardinality(rows) + Cardinality(cols))

\* C11: an accepted placement commits, in one step, the board before it with
\* the block's color in exactly the targets of its occupied offsets and then
\* every row and column that is full in that board emptied: a cell outside
\* the targets and outside those lines keeps its value; the same step adds
\* the score of those lines and only then shifts the queue and drops the
\* selection.
C11_PlacementEffect ==
  [][ Accepted' =>
        \A b \in {last'.block} :
        \A foot \in {Targets(anchor'[1], anchor'[2], b)} :
        \A ng \in {Stamped(grid, anchor'[1], anchor'[2], b)} :
        \A rows \in {FullRows(ng)}, cols \in {FullCols(ng)} :
          /\ \A t \in foot : OnBoard(t)
          /\ Cardinality(foot) = Len(Offsets(b))
          /\ IsEffect(grid', grid, foot, SHAPES[b].color, rows, cols)
          /\ score' = score + 200 * (Cardinality(rows) + Cardinality(cols))
          /\ queue' = <<queue[2], queue[3], queue'[3]>>
          /\ InQueue(b, queue)
          /\ selected' = NoBlock ]_vars

\* the vertical line placed at (0, 7) of the crowded board completed rows 1
\* and 2: its cell in row 0 holds its color, its cells in rows 1 and 2 are
\* empty with their rows, and row 3 is as it was
C11_Witness ==
  /\ Accepted
  /\ last.block = Vertical
  /\ anchor = <<0, 7>>
  /\ grid[0][7] = SHAPES[Vertical].color
  /\ RowEmpty(grid, 1)
  /\ RowEmpty(grid, 2)
  /\ \A c \in 0..6 : grid[3][c] # Null
  /\ grid[3][7] = Null

\* C12: a placeBlock call appends explosion entries (and starts their timer)
\* exactly when it is accepted and leaves a row or a column full; the
\* coordinates of the entries are exactly the cells of the full rows and of
\* the full columns, 8 entries for each line, all of them occupied in the
\* board with the block written into it; the entries already listed stay.
C12_ClearEvent ==
  [][ last'.op = "place" =>
        /\ Len(explosions') >= Len(explosions)
        /\ SubSeq(explosions', 1, Len(explosions)) = explosions
        /\ IF Accepted'
           THEN \A ng \in {Stamped(grid, anchor'[1], anchor'[2], last'.block)} :
                \A rows \in {FullRows(ng)}, cols \in {FullCols(ng)}, new \in {Emitted} :
                  /\ (new # <<>>) <=> (rows # {} \/ cols # {})
                  /\ (timers' # timers) <=> (rows # {} \/ cols # {})
                  /\ Reports(new, rows, cols)
                  /\ \A k \in DOMAIN new : ng[new[k].r][new[k].c] # Null
           ELSE /\ Emitted = <<>>
                /\ timers' = timers ]_vars

\* a placement emptied a row and a column at once: 16 entries were appended,
\* the cell where the two cross is listed twice, and the cells are empty now
C12_Witness ==
  /\ Accepted
  /\ Len(explosions) = 2 * GRID_SIZE
  /\ \E j \in DOMAIN explosions, k \in DOMAIN explosions :
       /\ j < k
       /\ explosions[j].r = explosions[k].r
       /\ explosions[j].c = explosions[k].c
  /\ \A k \in DOMAIN explosions : grid[explosions[k].r][explosions[k].c] = Null

\* C13: in every state between two handlers no row of the grid is full and no
\* column of the grid is full.
C13_NoFullLine ==
  /\ FullRows(grid) = {}
  /\ FullCols(grid) = {}

\* a placement has just emptied the lines it completed, and the board still
\* holds blocks
C13_Witness ==
  /\ Accepted
  /\ timers # <<>>
  /\ last.block = Vertical
  /\ \E r \in Idx : RowEmpty(grid, r)
  /\ \E r \in Idx : \E c \in Idx : grid[r][c] # Null

\* C14: the selection is always nothing or a block of the queue, and the block
\* a placeBlock call is made with is the selected one, a block of the queue
\* at the time of the call.
C14_SelectionInQueue ==
  /\ [](selected = NoBlock \/ InQueue(selected, queue))
  /\ [][ last'.op = "place" => (last'.block = selected /\ InQueue(selected, queue)) ]_vars

\* the front block was placed and dropped: the queue no longer holds it and
\* nothing is selected
C14_Witness ==
  /\ Accepted
  /\ ~InQueue(last.block, queue)
  /\ selected = NoBlock

\* block b fits somewhere: at some anchor of the board every target is an
\* empty cell of the board
Fits(g, b) ==
  \E r \in Idx, c \in Idx :
    \A t \in Targets(r, c, b) : OnBoard(t) /\ g[t[1]][t[2]] = Null

\* none of the queued blocks fits anywhere
Stuck(g, q) == \A i \in DOMAIN q : ~Fits(g, q[i])

\* C15: once no block of the queue fits at any anchor of the board, every
\* placeBlock call returns false and the board, the score and the queue stay
\* as they are (so the state stays stuck); only the selection still changes.
C15_StuckForever ==
  [][ Stuck(grid, queue) =>
        /\ last'.op = "place" => last'.ret = "false"
        /\ grid' = grid
        /\ score' = score
        /\ queue' = queue
        /\ cleared' = cleared
        /\ Stuck(grid', queue') ]_vars

\* with no queued block fitting, a block was selected and a cell clicked: the
\* call was refused
C15_Witness ==
  /\ Stuck(grid, queue)
  /\ Rejected
  /\ selected # NoBlock
  /\ InQueue(selected, queue)

\* C16: the score is always 200 times the number of rows and columns emptied
\* so far (a row and a column emptied together count as two), hence a
\* multiple of 200.
C16_ScoreCountsLines ==
  /\ score = 200 * cleared
  /\ score % 200 = 0

\* after a row emptied earlier, one placement emptied two more rows: three
\* lines, score 600
C16_Witness ==
  /\ Accepted
  /\ cleared = 3
  /\ score = 600

\* C17: while the timer of a clear is pending, the explosion entries of that
\* clear (those stamped with the time the timer was set) are in the list: an
\* earlier clear's timer does not remove them.
C17_EntriesOutliveOtherTimers ==
  \A k \in DOMAIN timers :
    \E j \in DOMAIN explosions : explosions[j].t = timers[k]

\* C18: when the timers run, a non-empty explosion list becomes empty again,
\* in particular after every clear, and a timer's callback changes neither
\* the board, the score, the queue nor the selection.
C18_ExplosionsEventuallyRemoved ==
  /\ (explosions # <<>>) ~> (explosions = <<>>)
  /\ (Accepted /\ timers # <<>>) ~> (explosions = <<>> /\ timers = <<>>)
  /\ [](explosions # <<>> => timers # <<>>)
  /\ [][ last'.op = "timer" =>
            (explosions' = <<>> /\ UNCHANGED <<grid, score, queue, selected>>) ]_vars

\* two clears have happened and every timer has fired: the list is empty, and
\* the board still holds the blocks the clears left
C18_Witness ==
  /\ last.op = "timer"
  /\ cleared >= 2
  /\ explosions = <<>>
  /\ timers = <<>>
  /\ grid # emptyGrid

\* C19: a click on the block at any position of the queue makes that block
\* the selection, whatever was selected before, and changes neither the
\* board, the score, the queue nor the explosions and their timers.
C19_SelectOnlySelects ==
  [][ \A i \in 1..3 :
        Select(i) =>
          /\ selected' = queue[i]
          /\ last'.op = "select"
          /\ UNCHANGED <<grid, score, queue, explosions, timers, cleared>> ]_vars

\* the last block of the queue was selected while explosions were pending
C19_Witness ==
  /\ last.op = "select"
  /\ selected = queue[3]
  /\ selected # queue[1]
  /\ explosions # <<>>
  /\ timers # <<>>

====
